---- MODULE Spec2Model ----
(***************************************************************************)
(* Model of diamond_square(size, roughness=0.7), the procedural terrain    *)
(* generator nested in create_fractal_landscape                            *)
(* (src/advanced_3d_visualization.py, lines 346-396).                      *)
(*                                                                         *)
(* One call is modelled statement by statement: the allocation, the four   *)
(* corner assignments, and one action per iteration of the diamond loop    *)
(* and of the square loop.  Floating-point values are modelled as exact    *)
(* rationals <<numerator, denominator>> in lowest terms.  np.random is a   *)
(* seeded pseudo-random generator with global state: `rng`.  The caller    *)
(* makes the call once and, after it returned, reseeds the generator with  *)
(* the same seed and repeats the call with the same arguments.             *)
(***************************************************************************)
EXTENDS Integers, Sequences, FiniteSets, TLC

\* ------------------------------------------------------------------ bounds
MaxSize == 2
MaxSeed == 2

\* --------------------------------------------------------- exact rationals
Abs(x) == IF x < 0 THEN -x ELSE x

RECURSIVE GCD(_, _)
GCD(a, b) == IF b = 0 THEN a ELSE GCD(b, a % b)

\* n/d with d > 0, in lowest terms
Norm(num, den) ==
    LET g == GCD(Abs(num), den)
    IN  IF g = 0 THEN <<0, 1>> ELSE <<num \div g, den \div g>>

Zero == <<0, 1>>
One == <<1, 1>>
FromInt(k) == <<k, 1>>

RAdd(x, y) ==
    LET g == GCD(x[2], y[2])
        l == (x[2] \div g) * y[2]
    IN  Norm(x[1] * (l \div x[2]) + y[1] * (l \div y[2]), l)

RMul(x, y) == Norm(x[1] * y[1], x[2] * y[2])

\* x / k for an integer k > 0
RDivInt(x, k) == Norm(x[1], x[2] * k)

RLeq(x, y) == x[1] * y[2] <= y[1] * x[2]
RLess(x, y) == x[1] * y[2] < y[1] * x[2]

RECURSIVE RPow(_, _)
RPow(x, k) == IF k = 0 THEN One ELSE RMul(x, RPow(x, k - 1))

RECURSIVE RSumTo(_, _)
RSumTo(s, m) == IF m = 0 THEN Zero ELSE RAdd(RSumTo(s, m - 1), s[m])
RSum(s) == RSumTo(s, Len(s))

RECURSIVE Pow2(_)
Pow2(k) == IF k = 0 THEN 1 ELSE 2 * Pow2(k - 1)

\* ------------------------------------------------------------ the inputs
\* size: any Python int the caller may pass, the invalid ones included
Sizes == -1 .. MaxSize
\* roughness values passed explicitly: 0, 1/2, 1 and 3/2
Roughs == {<<0, 1>>, <<1, 2>>, <<1, 1>>, <<3, 2>>}
\* the default of the keyword parameter, 0.7
DefaultRoughness == <<7, 10>>
Seeds == 0 .. MaxSeed

\* ------------------------------------------------- the random generator
\* np.random.randn(): the sample the generator yields in state s, and the
\* generator's next state (a full-period congruential generator stands for
\* the library's generator; samples are the integers -2 .. 2)
Randn(s) == (s % 5) - 2
NextRng(s) == (5 * s + 3) % 16

\* ---------------------------------------------------------------- state
VARIABLES
    pc,          \* position in the call
    seed,        \* the seed the caller gives the generator
    rng,         \* state of the global generator
    run,         \* 1 for the first call, 2 for the repeated one
    prev,        \* what the first call returned and drew
    size,        \* parameter
    given,       \* whether roughness was passed
    roughness,   \* parameter (after default binding at entry)
    n,           \* local
    terrain,     \* local: rows of cells
    k,           \* number of corners assigned
    step_size,   \* local
    half_step,   \* local
    scale,       \* local
    i, j,        \* loop variables
    ret,         \* value the caller received
    err,         \* exception the caller received
    written,     \* history: cells assigned since the allocation
    draws,       \* history: each sample drawn and the cell it was assigned to
    early,       \* history: cells read before they were assigned
    passes,      \* history: completed passes of the while loop
    stepLog,     \* history: step_size at the start of each pass
    last         \* history: the last assignment made by a loop step

vars == <<pc, seed, rng, run, prev, size, given, roughness, n, terrain, k,
          step_size, half_step, scale, i, j, ret, err, written, draws,
          early, passes, stepLog, last>>

NoGrid == <<>>
NoWrite == [kind |-> "none", cell |-> <<0, 0>>, reads |-> <<>>, count |-> 0,
            sample |-> 0, scale |-> Zero, pass |-> 0, step |-> 0]
NoPrev == [grid |-> NoGrid, draws |-> <<>>]

\* ------------------------------------------------------ array helpers
\* np.zeros((m, m))
Zeros(m) == [r \in 0 .. m - 1 |-> [c \in 0 .. m - 1 |-> Zero]]
\* terrain.shape
Shape(t) == IF t = NoGrid THEN <<0, 0>>
            ELSE <<Cardinality(DOMAIN t), Cardinality(DOMAIN t[0])>>
\* numpy index normalisation: -m .. -1 count from the end
Ix(a, m) == IF a < 0 THEN a + m ELSE a
InRange(a, m) == -m <= a /\ a < m
Cell(c, m) == <<Ix(c[1], m), Ix(c[2], m)>>
At(t, c, m) == t[Ix(c[1], m)][Ix(c[2], m)]
Put(t, c, m, v) == [t EXCEPT ![Ix(c[1], m)][Ix(c[2], m)] = v]
SeqToSet(s) == {s[x] : x \in 1 .. Len(s)}
AllInRange(s, m) == \A x \in 1 .. Len(s) : InRange(s[x][1], m) /\ InRange(s[x][2], m)

Init ==
    /\ pc = "call"
    /\ seed \in Seeds
    /\ rng = seed
    /\ run = 1
    /\ prev = NoPrev
    /\ size \in Sizes
    /\ given \in BOOLEAN
    /\ roughness \in (IF given THEN Roughs ELSE {DefaultRoughness})
    /\ n = 0
    /\ terrain = NoGrid
    /\ k = 0
    /\ step_size = 0
    /\ half_step = 0
    /\ scale = Zero
    /\ i = 0
    /\ j = 0
    /\ ret = NoGrid
    /\ err = "none"
    /\ written = {}
    /\ draws = <<>>
    /\ early = {}
    /\ passes = 0
    /\ stepLog = <<>>
    /\ last = NoWrite

\* ------------------------------------------------- pieces of the code
\* a bug: the "+ 1" of the grid side forgotten
GridSideNoPlus(sz) == Pow2(sz)

\* line 349: n = 2**size + 1
GridSide(sz) == Pow2(sz) + 1

\* lines 353-356: the subscripts of the four corner assignments, in order
CornerCells == << <<0, 0>>, <<0, -1>>, <<-1, 0>>, <<-1, -1>> >>

\* a bug: the loop started at the second pass's step size
InitialStepHalved(m) == (m - 1) \div 2

\* line 358: step_size = n - 1
InitialStep(m) == m - 1

\* line 359: scale = 1.0
InitialScale == One

\* a bug: the step decremented instead of halved
HalfOfDecrement(s) == s - 1

\* line 362: half_step = step_size // 2
HalfOf(s) == s \div 2

\* lines 368-369: the subscripts the diamond step reads for loop indices a, b
DiamondReads(a, b, s) == << <<a, b>>, <<a, b + s>>, <<a + s, b>>, <<a + s, b + s>> >>

\* a bug: the column offset of the diamond step's midpoint forgotten
DiamondTargetNoColumnOffset(a, b, h) == <<a + h, b>>

\* line 370: the subscript the diamond step assigns
DiamondTarget(a, b, h) == <<a + h, b + h>>

\* a bug: every row of the square step started at half_step
SquareStartConstant(a, h, s) == h

\* a bug: the offset of the square step's inner range forgotten
SquareStartNoOffset(a, h, s) == a % s

\* line 374: first j of the square step's inner range for row a
SquareStart(a, h, s) == (a + h) % s

\* a bug: the guards i >= half_step and j >= half_step left out, so that a
\* negative subscript wraps to the opposite edge
SquareReadsWrapping(a, b, h, m) ==
    << <<a - h, b>> >>
    \o (IF a + h < m THEN << <<a + h, b>> >> ELSE <<>>)
    \o << <<a, b - h>> >>
    \o (IF b + h < m THEN << <<a, b + h>> >> ELSE <<>>)

\* lines 378-389: the subscripts the square step reads for cell (a, b), in
\* the order of the four guarded additions
SquareReads(a, b, h, m) ==
    (IF a >= h THEN << <<a - h, b>> >> ELSE <<>>)
    \o (IF a + h < m THEN << <<a + h, b>> >> ELSE <<>>)
    \o (IF b >= h THEN << <<a, b - h>> >> ELSE <<>>)
    \o (IF b + h < m THEN << <<a, b + h>> >> ELSE <<>>)

\* the values at a sequence of subscripts
Values(t, rd, m) == [x \in 1 .. Len(rd) |-> At(t, rd[x], m)]

\* line 370 / line 391: average + np.random.randn() * scale
Perturbed(total, count, sample, sc) ==
    RAdd(RDivInt(total, count), RMul(FromInt(sample), sc))

\* line 394: scale *= roughness
NextScale(sc, r) == RMul(sc, r)

\* cells among rd that have not been assigned yet
Unwritten(rd, m) == {Cell(rd[x], m) : x \in 1 .. Len(rd)} \ written

\* ---------------------------------------------------------------- actions
\* lines 349-350 with size >= 0
Enter ==
    /\ pc = "call"
    /\ size >= 0
    /\ n' = GridSide(size)
    /\ terrain' = Zeros(n')
    /\ k' = 0
    /\ pc' = "corners"
    /\ UNCHANGED <<seed, rng, run, prev, size, given, roughness, step_size,
                   half_step, scale, i, j, ret, err, written, draws, early,
                   passes, stepLog, last>>

\* lines 349-350 with size < 0: 2**size is a float, n is not an integer and
\* np.zeros raises TypeError
EnterRaise ==
    /\ pc = "call"
    /\ size < 0
    /\ pc' = "raised"
    /\ err' = "TypeError"
    /\ UNCHANGED <<seed, rng, run, prev, size, given, roughness, n, terrain, k,
                   step_size, half_step, scale, i, j, ret, written, draws,
                   early, passes, stepLog, last>>

\* lines 353-356, one assignment per step
InitCorner ==
    /\ pc = "corners"
    /\ k < 4
    /\ LET c == CornerCells[k + 1]
       IN  /\ terrain' = Put(terrain, c, n, FromInt(Randn(rng)))
           /\ written' = written \cup {Cell(c, n)}
           /\ draws' = Append(draws, [cell |-> Cell(c, n), sample |-> Randn(rng)])
    /\ rng' = NextRng(rng)
    /\ k' = k + 1
    /\ pc' = IF k + 1 = 4 THEN "setup" ELSE "corners"
    /\ UNCHANGED <<seed, run, prev, size, given, roughness, n, step_size,
                   half_step, scale, i, j, ret, err, early, passes, stepLog,
                   last>>

\* a bug: scale kept in state that outlives the call and set to 1.0 on the
\* first call only
SetupScaleOnce ==
    /\ pc = "setup"
    /\ step_size' = InitialStep(n)
    /\ scale' = IF run = 1 THEN InitialScale ELSE scale
    /\ pc' = "while"
    /\ UNCHANGED <<seed, rng, run, prev, size, given, roughness, n, terrain, k,
                   half_step, i, j, ret, err, written, draws, early, passes,
                   stepLog, last>>

\* lines 358-359
Setup ==
    /\ pc = "setup"
    /\ step_size' = InitialStep(n)
    /\ scale' = InitialScale
    /\ pc' = "while"
    /\ UNCHANGED <<seed, rng, run, prev, size, given, roughness, n, terrain, k,
                   half_step, i, j, ret, err, written, draws, early, passes,
                   stepLog, last>>

\* lines 361-362 and the heads of the loops at 366-367: the test holds
LoopEnter ==
    /\ pc = "while"
    /\ step_size > 1
    /\ half_step' = HalfOf(step_size)
    /\ stepLog' = Append(stepLog, step_size)
    /\ i' = 0
    /\ j' = 0
    /\ pc' = "diamond"
    /\ UNCHANGED <<seed, rng, run, prev, size, given, roughness, n, terrain, k,
                   step_size, scale, ret, err, written, draws, early, passes,
                   last>>

\* line 361: the test fails
LoopExit ==
    /\ pc = "while"
    /\ ~(step_size > 1)
    /\ pc' = "return"
    /\ UNCHANGED <<seed, rng, run, prev, size, given, roughness, n, terrain, k,
                   step_size, half_step, scale, i, j, ret, err, written, draws,
                   early, passes, stepLog, last>>

\* lines 366-370: one iteration of the diamond step's inner loop, and the
\* advance of for i in range(0, n-1, step_size) / for j in range(0, n-1,
\* step_size); after the last one, the heads of the loops at 373-374
DiamondCell ==
    /\ pc = "diamond"
    /\ LET rd == DiamondReads(i, j, step_size)
           tg == DiamondTarget(i, j, half_step)
           ok == AllInRange(rd, n) /\ AllInRange(<<tg>>, n)
           v == Perturbed(RSum(Values(terrain, rd, n)), 4, Randn(rng), scale)
           moreJ == j + step_size < n - 1
           moreI == i + step_size < n - 1
       IN  /\ pc' = IF ~ok THEN "raised"
                    ELSE IF moreJ \/ moreI THEN "diamond" ELSE "square"
           /\ err' = IF ok THEN err ELSE "IndexError"
           /\ terrain' = IF ok THEN Put(terrain, tg, n, v) ELSE terrain
           /\ rng' = IF AllInRange(rd, n) THEN NextRng(rng) ELSE rng
           /\ written' = IF ok THEN written \cup {Cell(tg, n)} ELSE written
           /\ draws' = IF ok
                       THEN Append(draws, [cell |-> Cell(tg, n), sample |-> Randn(rng)])
                       ELSE draws
           /\ early' = IF ok THEN early \cup Unwritten(rd, n) ELSE early
           /\ last' = IF ok
                      THEN [kind |-> "diamond", cell |-> tg, reads |-> rd,
                            count |-> 4, sample |-> Randn(rng), scale |-> scale,
                            pass |-> passes + 1, step |-> step_size]
                      ELSE last
           /\ i' = IF ~ok \/ moreJ THEN i
                   ELSE IF moreI THEN i + step_size ELSE 0
           /\ j' = IF ~ok THEN j
                   ELSE IF moreJ THEN j + step_size
                   ELSE IF moreI THEN 0
                   ELSE SquareStart(0, half_step, step_size)
    /\ UNCHANGED <<seed, run, prev, size, given, roughness, n, k, step_size,
                   half_step, scale, ret, passes, stepLog>>

\* lines 373-391: one iteration of the square step's inner loop, and the
\* advance of for i in range(0, n, half_step) / for j in
\* range((i + half_step) % step_size, n, step_size).  The inner range is
\* never empty: its start is below step_size <= n - 1.
SquareCell ==
    /\ pc = "square"
    /\ LET rd == SquareReads(i, j, half_step, n)
           tg == <<i, j>>
           count == Len(rd)
           inr == AllInRange(rd, n)
           ok == inr /\ count > 0 /\ AllInRange(<<tg>>, n)
           v == Perturbed(RSum(Values(terrain, rd, n)), count, Randn(rng), scale)
           moreJ == j + step_size < n
           moreI == i + half_step < n
       IN  /\ pc' = IF ~ok THEN "raised"
                    ELSE IF moreJ \/ moreI THEN "square" ELSE "passend"
           /\ err' = IF ok THEN err
                     ELSE IF inr /\ count = 0 THEN "ZeroDivisionError"
                     ELSE "IndexError"
           /\ terrain' = IF ok THEN Put(terrain, tg, n, v) ELSE terrain
           /\ rng' = IF inr /\ count > 0 THEN NextRng(rng) ELSE rng
           /\ written' = IF ok THEN written \cup {Cell(tg, n)} ELSE written
           /\ draws' = IF ok
                       THEN Append(draws, [cell |-> Cell(tg, n), sample |-> Randn(rng)])
                       ELSE draws
           /\ early' = IF ok THEN early \cup Unwritten(rd, n) ELSE early
           /\ last' = IF ok
                      THEN [kind |-> "square", cell |-> tg, reads |-> rd,
                            count |-> count, sample |-> Randn(rng),
                            scale |-> scale, pass |-> passes + 1,
                            step |-> step_size]
                      ELSE last
           /\ i' = IF ~ok \/ moreJ THEN i
                   ELSE IF moreI THEN i + half_step ELSE i
           /\ j' = IF ~ok THEN j
                   ELSE IF moreJ THEN j + step_size
                   ELSE IF moreI
                        THEN SquareStart(i + half_step, half_step, step_size)
                   ELSE j
    /\ UNCHANGED <<seed, run, prev, size, given, roughness, n, k, step_size,
                   half_step, scale, ret, passes, stepLog>>

\* lines 393-394
PassEnd ==
    /\ pc = "passend"
    /\ step_size' = half_step
    /\ scale' = NextScale(scale, roughness)
    /\ passes' = passes + 1
    /\ pc' = "while"
    /\ UNCHANGED <<seed, rng, run, prev, size, given, roughness, n, terrain, k,
                   half_step, i, j, ret, err, written, draws, early, stepLog,
                   last>>

\* line 396
Return ==
    /\ pc = "return"
    /\ ret' = terrain
    /\ pc' = "done"
    /\ UNCHANGED <<seed, rng, run, prev, size, given, roughness, n, terrain, k,
                   step_size, half_step, scale, i, j, err, written, draws,
                   early, passes, stepLog, last>>

\* the caller keeps the first result, reseeds the generator with the same
\* seed and calls again with the same arguments (the locals of the finished
\* call are dead: every one is assigned again before it is used)
Recall ==
    /\ pc = "done"
    /\ run = 1
    /\ run' = 2
    /\ prev' = [grid |-> ret, draws |-> draws]
    /\ rng' = seed
    /\ ret' = NoGrid
    /\ written' = {}
    /\ draws' = <<>>
    /\ early' = {}
    /\ passes' = 0
    /\ stepLog' = <<>>
    /\ last' = NoWrite
    /\ pc' = "call"
    /\ UNCHANGED <<seed, size, given, roughness, n, terrain, k, step_size,
                   half_step, scale, i, j, err>>

Next ==
    \/ Enter
    \/ EnterRaise
    \/ InitCorner
    \/ Setup
    \/ LoopEnter
    \/ LoopExit
    \/ DiamondCell
    \/ SquareCell
    \/ PassEnd
    \/ Return
    \/ Recall

Spec == Init /\ [][Next]_vars

TypeOK ==
    /\ pc \in {"call", "corners", "setup", "while", "diamond", "square",
               "passend", "return", "done", "raised"}
    /\ run \in {1, 2}
    /\ err \in {"none", "TypeError", "IndexError", "ZeroDivisionError"}

\* ================================================================ claims
Started == pc \notin {"call", "raised"}
Finished == pc \in {"done", "raised"}
Corners == {<<0, 0>>, <<0, n - 1>>, <<n - 1, 0>>, <<n - 1, n - 1>>}
CornerSeq == << <<0, 0>>, <<0, n - 1>>, <<n - 1, 0>>, <<n - 1, n - 1>> >>
Min(a, b) == IF a < b THEN a ELSE b

\* C1: for every size >= 1 and any roughness, from the allocation on and in
\* the returned value the grid has exactly 2^size + 1 rows and 2^size + 1
\* columns; the dimensions are the same in every state of the run.
C1_Shape ==
    size >= 1 =>
        /\ Started => Shape(terrain) = <<Pow2(size) + 1, Pow2(size) + 1>>
        /\ pc = "done" => Shape(ret) = <<Pow2(size) + 1, Pow2(size) + 1>>

C1_Witness ==
    /\ pc = "done"
    /\ size = 2
    /\ roughness = <<3, 2>>
    /\ Shape(ret) = <<5, 5>>

\* C2: a call with size < 1 ends by raising, and the caller receives no grid.
C2_InvalidSizeRejected ==
    (size < 1 /\ Finished) => (pc = "raised" /\ ret = NoGrid)

\* C3: a call with a valid size and a roughness outside the open interval
\* (0, 1) ends by raising before any refinement pass, and the caller receives
\* no grid.
C3_InvalidRoughnessRejected ==
    (size >= 1 /\ ~(RLess(Zero, roughness) /\ RLess(roughness, One)) /\ Finished)
        => (pc = "raised" /\ ret = NoGrid /\ passes = 0)

\* C4: the four corners are the first cells assigned, in the order (0,0),
\* (0,n-1), (n-1,0), (n-1,n-1); no later assignment is to a corner; and from
\* the end of the initialization on each corner holds the value it was
\* initialized with.
C4_CornersFirstAndKept ==
    Started =>
        /\ \A x \in 1 .. Min(4, Len(draws)) : draws[x].cell = CornerSeq[x]
        /\ \A x \in 5 .. Len(draws) : draws[x].cell \notin Corners
        /\ pc = "corners" => Len(draws) = k
        /\ pc # "corners" =>
              /\ Len(draws) >= 4
              /\ \A x \in 1 .. 4 :
                    At(terrain, CornerSeq[x], n) = FromInt(draws[x].sample)
        /\ pc = "done" =>
              \A x \in 1 .. 4 : At(ret, CornerSeq[x], n) = FromInt(draws[x].sample)

C4_Witness ==
    /\ pc = "done"
    /\ size = 2
    /\ Len(draws) > 4
    /\ \A x \in 1 .. 4 : At(ret, CornerSeq[x], n) = FromInt(draws[x].sample)
    /\ \E x \in 1 .. 4 : draws[x].sample # 0

Grid == (0 .. n - 1) \X (0 .. n - 1)
AfterSetup == pc \in {"while", "diamond", "square", "passend", "return", "done"}

RECURSIVE RSumCells(_, _)
RSumCells(t, S) ==
    IF S = {} THEN Zero
    ELSE LET c == CHOOSE c \in S : TRUE
         IN  RAdd(t[c[1]][c[2]], RSumCells(t, S \ {c}))

\* C5: the repeated call, made with the same arguments after the generator
\* was reseeded with the same seed, draws its samples for the same cells in
\* the same order and returns the same grid, cell for cell.
C5_Deterministic ==
    run = 2 =>
        /\ Len(draws) <= Len(prev.draws)
        /\ \A x \in 1 .. Len(draws) : draws[x] = prev.draws[x]
        /\ pc = "done" => (ret = prev.grid /\ draws = prev.draws)

C5_Witness ==
    /\ run = 2
    /\ pc = "done"
    /\ size = 2
    /\ roughness = <<1, 2>>
    /\ ret = prev.grid
    /\ \E c \in Grid : ret[c[1]][c[2]] # Zero

\* C6: a cell assigned by the square step was computed from exactly those of
\* its four neighbours at distance step_size/2 (up, down, left, right) that
\* lie inside the grid, each read at its own subscript, never a wrapped one:
\* 4 minus the number of grid borders the cell lies on (2 at a corner, 3 on
\* an edge, 4 inside); its value is their average plus sample * scale.
C6_SquareAverage ==
    last.kind = "square" =>
        LET c == last.cell
            h == last.step \div 2
            Nb == {<<c[1] - h, c[2]>>, <<c[1] + h, c[2]>>,
                   <<c[1], c[2] - h>>, <<c[1], c[2] + h>>} \cap Grid
            borders == (IF c[1] \in {0, n - 1} THEN 1 ELSE 0)
                       + (IF c[2] \in {0, n - 1} THEN 1 ELSE 0)
        IN  /\ SeqToSet(last.reads) = Nb
            /\ Len(last.reads) = Cardinality(Nb)
            /\ last.count = Cardinality(Nb)
            /\ last.count = 4 - borders
            /\ At(terrain, c, n) =
                 RAdd(RDivInt(RSumCells(terrain, Nb), Cardinality(Nb)),
                      RMul(FromInt(last.sample), last.scale))

C6_Witness ==
    /\ last.kind = "square"
    /\ size = 1
    /\ last.cell = <<0, 1>>
    /\ last.count = 3
    /\ SeqToSet(last.reads) = {<<1, 1>>, <<0, 0>>, <<0, 2>>}
    /\ last.sample # 0

\* C7: no step reads a cell that has not been assigned; the passes run in
\* strictly decreasing step size; and no cell is assigned twice, so every
\* value read is the cell's final value.
C7_NoReadBeforeWrite ==
    /\ early = {}
    /\ \A x \in 1 .. Len(stepLog) - 1 : stepLog[x + 1] < stepLog[x]
    /\ \A x, y \in 1 .. Len(draws) : draws[x].cell = draws[y].cell => x = y
    /\ last.kind # "none" => SeqToSet(last.reads) \subseteq written

C7_Witness ==
    /\ pc = "done"
    /\ size = 2
    /\ Len(stepLog) = 2
    /\ early = {}
    /\ written = Grid

\* C8: a cell assigned by the diamond step of a pass with step size s is
\* (a + s/2, b + s/2) for multiples a, b of s below n - 1; it was computed
\* from the four cells (a,b), (a,b+s), (a+s,b), (a+s,b+s), all inside the
\* grid, and its value is their average plus sample * scale for the current
\* scale; when the diamond step of a pass is over, every such cell has been
\* assigned.
C8_DiamondAverage ==
    /\ last.kind = "diamond" =>
          LET c == last.cell
              s == last.step
              h == s \div 2
              a == c[1] - h
              b == c[2] - h
              Sq == {<<a, b>>, <<a, b + s>>, <<a + s, b>>, <<a + s, b + s>>}
          IN  /\ s = step_size /\ last.scale = scale
              /\ a \in 0 .. n - 2 /\ b \in 0 .. n - 2
              /\ a % s = 0 /\ b % s = 0
              /\ Sq \subseteq Grid
              /\ SeqToSet(last.reads) = Sq
              /\ last.count = 4
              /\ At(terrain, c, n) =
                   RAdd(RDivInt(RSumCells(terrain, Sq), 4),
                        RMul(FromInt(last.sample), scale))
    /\ pc \in {"square", "passend"} =>
          \A a, b \in 0 .. n - 2 :
              (a % step_size = 0 /\ b % step_size = 0)
                  => <<a + step_size \div 2, b + step_size \div 2>> \in written

C8_Witness ==
    /\ last.kind = "diamond"
    /\ size = 1
    /\ last.cell = <<1, 1>>
    /\ SeqToSet(last.reads) = {<<0, 0>>, <<0, 2>>, <<2, 0>>, <<2, 2>>}
    /\ last.sample # 0

\* C9: for size >= 1, step_size is 2^size after the setup and 2^(size - p)
\* after p passes, a power of two at the start of every pass; the loop is
\* left, and the grid returned, only with step_size = 1 after exactly size
\* passes.
C9_Passes ==
    /\ (size >= 1 /\ AfterSetup) =>
          /\ passes <= size
          /\ step_size = Pow2(size - passes)
          /\ Len(stepLog) \in {passes, passes + 1}
          /\ \A x \in 1 .. Len(stepLog) : stepLog[x] = Pow2(size - x + 1)
          /\ pc \in {"diamond", "square", "passend"} => Len(stepLog) = passes + 1
          /\ pc \in {"return", "done"} => (passes = size /\ step_size = 1)
    /\ ret # NoGrid => pc = "done"

\* what is left to do, for a call with size >= 1 that is past its setup: it
\* counts the cells still to assign, the passes still to run and the
\* statements left in the current pass
Rank ==
    CASE pc = "while" -> 3
      [] pc = "diamond" -> 2
      [] pc = "square" -> 1
      [] OTHER -> 0
Measure ==
    8 * (n * n - Cardinality(written)) + 4 * (size - passes) + Rank
      + (IF pc = "done" THEN 0 ELSE 1)

\* C9: ... and the loop terminates: every step of a call with size >= 1 that
\* is past its setup strictly decreases Measure, which never goes below 0,
\* and ends in the return, never in an exception.
C9_Terminates ==
    /\ []C9_Passes
    /\ [][(size >= 1 /\ AfterSetup /\ pc # "done")
            => (AfterSetup' /\ Measure' < Measure /\ Measure' >= 0)]_vars

C9_Witness ==
    /\ pc = "done"
    /\ size = 2
    /\ passes = 2
    /\ stepLog = <<4, 2>>
    /\ step_size = 1

\* C10: scale is set to 1.0 at the setup and changes only at the end of a
\* pass, where it is multiplied by roughness; every assignment of pass p uses
\* roughness^(p-1); and scale never increases during the run.
C10_ScaleNeverIncreases ==
    [][/\ scale' # scale =>
            \/ pc = "setup" /\ scale' = One
            \/ pc = "passend" /\ scale' = RMul(scale, roughness)
       /\ pc = "setup" => scale' = One
       /\ pc = "passend" => scale' = RMul(scale, roughness)
       /\ last'.kind # "none" => last'.scale = RPow(roughness, last'.pass - 1)
       /\ pc \in {"while", "diamond", "square", "passend", "return"}
              => RLeq(scale', scale)]_vars

\* the part of C10 that does not depend on the value of roughness
C10_ScaleSchedule ==
    [][/\ scale' # scale =>
            \/ pc = "setup" /\ scale' = One
            \/ pc = "passend" /\ scale' = RMul(scale, roughness)
       /\ pc = "setup" => scale' = One
       /\ pc = "passend" => scale' = RMul(scale, roughness)
       /\ last'.kind # "none" => last'.scale = RPow(roughness, last'.pass - 1)
       /\ (pc \in {"while", "diamond", "square", "passend", "return"}
             /\ RLeq(roughness, One))
              => RLeq(scale', scale)]_vars

\* the generator's state after m draws from state s
RECURSIVE RngAfter(_, _)
RngAfter(s, m) == IF m = 0 THEN s ELSE NextRng(RngAfter(s, m - 1))

\* C11: for size >= 1 every cell is assigned exactly once after the zero
\* allocation.  In every state the assignments made so far are to distinct
\* cells and one sample was drawn per assignment; at the return all n*n cells
\* have been assigned and n*n samples drawn.
C11_AssignedOnce ==
    (size >= 1 /\ Started) =>
        /\ \A x, y \in 1 .. Len(draws) : draws[x].cell = draws[y].cell => x = y
        /\ {draws[x].cell : x \in 1 .. Len(draws)} = written
        /\ written \subseteq Grid
        /\ rng = RngAfter(seed, Len(draws))
        /\ pc \in {"setup", "while"} /\ passes = 0 => written = Corners
        /\ pc \in {"return", "done"} =>
              /\ written = Grid
              /\ Len(draws) = n * n

\* C11: ... and each step of the initialization, of a diamond step or of a
\* square step assigns exactly one cell, one not assigned before, with one
\* sample, and leaves every other cell alone; the cells other than the corners
\* are assigned by the diamond or the square step of the current pass; no
\* other step assigns a cell or draws a sample.
C11_OneCellPerStep ==
    [][(size >= 1 /\ Started /\ pc # "done") =>
         IF pc \in {"corners", "diamond", "square"}
         THEN /\ pc' # "raised"
              /\ Len(draws') = Len(draws) + 1
              /\ LET c == draws'[Len(draws')].cell
                 IN  /\ c \in Grid \ written
                     /\ written' = written \cup {c}
                     /\ \A d \in Grid \ {c} :
                           terrain'[d[1]][d[2]] = terrain[d[1]][d[2]]
                     /\ (pc = "corners") = (c \in Corners)
                     /\ pc # "corners" =>
                           /\ last'.kind = pc
                           /\ last'.cell = c
                           /\ last'.pass = passes + 1
              /\ rng' = NextRng(rng)
         ELSE /\ terrain' = terrain
              /\ written' = written
              /\ draws' = draws
              /\ rng' = rng]_vars

C11_ExactlyOnce ==
    /\ []C11_AssignedOnce
    /\ C11_OneCellPerStep

C11_Witness ==
    /\ pc = "done"
    /\ size = 2
    /\ Len(draws) = 25
    /\ Cardinality(written) = 25
    /\ rng = RngAfter(seed, 25)
    /\ \A c \in Grid : \E x \in 1 .. 25 : draws[x].cell = c

====
